---- MODULE Spec2Model ----
(***************************************************************************)
(* PPOModel (python/unitytrainers/ppo/models.py): construction of the PPO  *)
(* graph (reward tracker, actor-critic head, curiosity module, optimizer)  *)
(* and the operations the built graph offers (update_reward, update_batch, *)
(* the step counter).                                                      *)
(*                                                                         *)
(* Numbers are exact rationals <<n, d>> with d > 0 in lowest terms;        *)
(* <<0, 0>> is NaN (the mean of an empty tensor).  Learning rates are      *)
(* carried in multiples of 1e-10 and probabilities in multiples of 1e-10,  *)
(* so that the constant 1e-10 of the source is exactly one unit.           *)
(***************************************************************************)
EXTENDS Integers, Sequences, FiniteSets, TLC

\* ------------------------------------------------------------------ bounds

\* Largest mini-batch fed to one run of the graph.
MaxBatch == 2
\* How far the step counter is driven (past every configured horizon).
MaxGlobalStep == 4
\* Largest number of cameras (number_visual_observations) of a brain.
MaxVisual == 2

\* ------------------------------------------------------- exact arithmetic

Abs(x) == IF x < 0 THEN -x ELSE x

RECURSIVE GCD(_, _)
GCD(a, b) == IF b = 0 THEN a ELSE GCD(b, a % b)

NaN == <<0, 0>>
IsNaN(x) == x[2] = 0

\* n/d in lowest terms with a positive denominator.
Rat(n, d) ==
    IF d = 0 THEN NaN
    ELSE LET g == GCD(Abs(n), Abs(d))
             s == IF d < 0 THEN -1 ELSE 1
         IN  <<(s * n) \div g, (s * d) \div g>>

R(n) == <<n, 1>>

RAdd(x, y) ==
    IF IsNaN(x) \/ IsNaN(y) THEN NaN
    ELSE LET g == GCD(x[2], y[2])
         IN  Rat(x[1] * (y[2] \div g) + y[1] * (x[2] \div g), (x[2] \div g) * y[2])

RNeg(x) == IF IsNaN(x) THEN NaN ELSE <<-x[1], x[2]>>

RSub(x, y) == RAdd(x, RNeg(y))

RMul(x, y) ==
    IF IsNaN(x) \/ IsNaN(y) THEN NaN
    ELSE LET a == Rat(x[1], y[2])
             b == Rat(y[1], x[2])
         IN  Rat(a[1] * b[1], a[2] * b[2])

RDiv(x, y) ==
    IF IsNaN(x) \/ IsNaN(y) \/ y[1] = 0 THEN NaN
    ELSE RMul(x, Rat(y[2], y[1]))

RLe(x, y) == x[1] * y[2] <= y[1] * x[2]

RMin(x, y) == IF IsNaN(x) \/ IsNaN(y) THEN NaN ELSE IF RLe(x, y) THEN x ELSE y

RMax(x, y) == IF IsNaN(x) \/ IsNaN(y) THEN NaN ELSE IF RLe(x, y) THEN y ELSE x

RSq(x) == RMul(x, x)

RECURSIVE RSum(_)
RSum(s) == IF s = <<>> THEN R(0) ELSE RAdd(Head(s), RSum(Tail(s)))

\* ------------------------------------------------------ TensorFlow kernels

\* tf.reduce_mean over all elements; the mean of no element is NaN.
tf_reduce_mean(s) == RDiv(RSum(s), R(Len(s)))

\* tf.boolean_mask(tensor, mask): the rows whose mask entry is TRUE.
RECURSIVE tf_boolean_mask(_, _)
tf_boolean_mask(t, m) ==
    IF t = <<>> THEN <<>>
    ELSE (IF Head(m) THEN <<Head(t)>> ELSE <<>>) \o tf_boolean_mask(Tail(t), Tail(m))

\* tf.clip_by_value(t, lo, hi) = maximum(minimum(t, hi), lo).
tf_clip_by_value(t, lo, hi) == RMax(RMin(t, hi), lo)

tf_squared_difference(x, y) == RSq(RSub(x, y))

\* polynomial_decay without the clamp of the step to decay_steps.
polynomial_decay_unclamped(learning_rate, step, decay_steps, end_learning_rate) ==
    RAdd(RMul(RSub(learning_rate, end_learning_rate), RSub(R(1), Rat(step, decay_steps))),
         end_learning_rate)

\* tf.train.polynomial_decay(lr, global_step, decay_steps, end, power=1.0), cycle=False.
polynomial_decay(learning_rate, step, decay_steps, end_learning_rate) ==
    LET gs == IF step < decay_steps THEN step ELSE decay_steps
        p  == Rat(gs, decay_steps)
    IN  RAdd(RMul(RSub(learning_rate, end_learning_rate), RSub(R(1), p)), end_learning_rate)

\* Flattening of a [batch, cols] tensor, row by row.
RECURSIVE Flatten(_)
Flatten(rows) == IF rows = <<>> THEN <<>> ELSE Head(rows) \o Flatten(Tail(rows))

RECURSIVE SumInts(_)
SumInts(s) == IF s = <<>> THEN 0 ELSE Head(s) + SumInts(Tail(s))

\* tf.concat(values, axis=1) refuses an empty list of tensors.
ConcatRaises(widths) == widths = <<>>
ConcatWidth(widths) == SumInts(widths)

\* ------------------------------------------------------ program constants

\* Width of every curiosity encoder (visual and vector) output.
EncSize == 128
\* Width of the forward model's linear output layer.
PredSize == 128
\* End values of the three schedules: 1e-10 (one learning-rate unit), 0.1, 1e-5.
LrEnd == R(1)
EpsilonEnd == Rat(1, 10)
BetaEnd == Rat(1, 100000)
\* Loss weights.
ValueWeight == Rat(1, 2)
CuriosityWeight == R(10)
ForwardWeight == Rat(1, 5)
InverseWeight == Rat(4, 5)
HalfSquares == Rat(1, 2)
RewardScale == Rat(1, 100)
\* The guard added to old_probs, in probability units of 1e-10.
ProbGuard == R(1)

\* ------------------------------------------------------------ configuration

ActionTypes == {"continuous", "discrete", "hybrid"}

\* vector_observation_space_size, num_stacked_vector_observations,
\* vector_action_space_size, vector_action_space_type, number_visual_observations.
Brains ==
    [vector_observation_space_size : {0, 4},
     num_stacked_vector_observations : {1},
     vector_action_space_size : {2},
     vector_action_space_type : ActionTypes,
     number_visual_observations : 0 .. MaxVisual]

DefaultBrain ==
    [vector_observation_space_size |-> 4,
     num_stacked_vector_observations |-> 1,
     vector_action_space_size |-> 2,
     vector_action_space_type |-> "discrete",
     number_visual_observations |-> 0]

\* Constructor defaults: lr=1e-4, epsilon=0.2, beta=1e-3.
DefaultHp ==
    [lr |-> R(1000000), epsilon |-> Rat(1, 5), beta |-> Rat(1, 1000),
     max_step |-> 3, use_recurrent |-> FALSE, num_layers |-> 2,
     m_size |-> 256, use_curiosity |-> FALSE]

LrVals == {R(1000000), R(3), R(0)}
EpsilonVals == {Rat(1, 5), Rat(1, 10), Rat(1, 20)}
BetaVals == {Rat(1, 1000), Rat(1, 1000000)}
Horizons == {2, 3}
Rewards == {0, 3, 7}

VARIABLES
    brain,                  \* the BrainSpec the model is built for
    hp,                     \* the constructor's hyper-parameters
    pc,                     \* position of the constructor
    attrs,                  \* attributes set on the model so far
    head,                   \* actor-critic head built: "none", "cc" or "dc"
    layers,                 \* hidden layer count after clamping
    encoded_state_w,        \* width of the encoded current state
    encoded_next_state_w,   \* width of the encoded next state
    pred_next_state_w,      \* width of the forward model's output layer
    loss_terms,             \* terms summed into self.loss
    global_step,            \* the step counter of LearningModel
    last_reward,            \* the reward tracker's persistent scalar
    new_reward,             \* what the reward tracker's input slot was last fed
    feed,                   \* the batch of the run in progress, <<>> when idle
    out                     \* what the run in progress fetched

vars == <<brain, hp, pc, attrs, head, layers, encoded_state_w, encoded_next_state_w,
          pred_next_state_w, loss_terms, global_step, last_reward, new_reward, feed, out>>

config == <<brain, hp>>
runtime == <<global_step, last_reward, new_reward, feed, out>>
widths == <<encoded_state_w, encoded_next_state_w, pred_next_state_w>>

None == <<>>
NoOut ==
    [policy_loss |-> None, value_loss |-> None, loss |-> None,
     forward_loss |-> None, inverse_loss |-> None, intrinsic_reward |-> None]

\* -------------------------------------------------------------- construction

o_size == brain.vector_observation_space_size * brain.num_stacked_vector_observations
a_size == brain.vector_action_space_size
v_size == brain.number_visual_observations

RewardAttrs == {"last_reward", "new_reward", "update_reward"}
HeadAttrs == {"probs", "old_probs", "value", "entropy", "selected_actions"}
CuriosityAttrs ==
    {"next_visual_in", "next_vector_obs", "inverse_loss", "forward_loss", "intrinsic_reward"}
OptimizerAttrs ==
    {"returns_holder", "advantage", "learning_rate", "old_value", "mask_input", "mask",
     "value_loss", "r_theta", "p_opt_a", "p_opt_b", "policy_loss", "loss", "update_batch"}

\* __init__, up to the reward encoder: the layer count is clamped to 1 and the
\* reward tracker's variable, input slot and assign operation are created.
CreateRewardEncoder ==
    /\ pc = "start"
    /\ layers' = IF hp.num_layers < 1 THEN 1 ELSE hp.num_layers
    /\ last_reward' = 0
    /\ attrs' = attrs \cup RewardAttrs
    /\ pc' = "actor_critic"
    /\ UNCHANGED <<config, head, widths, loss_terms, global_step, new_reward, feed, out>>

\* The head chosen by __init__: continuous control, or else discrete control.
HeadFor(action_type) == IF action_type = "continuous" THEN "cc" ELSE "dc"

CreateActorCritic ==
    /\ pc = "actor_critic"
    /\ head' = HeadFor(brain.vector_action_space_type)
    /\ attrs' = attrs \cup HeadAttrs
    /\ pc' = IF hp.use_curiosity THEN "inverse" ELSE "optimizer"
    /\ UNCHANGED <<config, layers, widths, loss_terms, runtime>>

\* The encoded state with the memory appended to it when recurrent.
EncodedStateListWithMemory ==
    (IF v_size > 0 THEN <<v_size * EncSize>> ELSE <<>>)
    \o (IF o_size > 0 THEN <<EncSize>> ELSE <<>>)
    \o (IF hp.use_recurrent THEN <<hp.m_size>> ELSE <<>>)

\* create_inverse_model: the widths of the tensors appended to encoded_state
\* (and, identically, to encoded_next_state).
EncodedStateList ==
    (IF v_size > 0 THEN <<v_size * EncSize>> ELSE <<>>)
    \o (IF o_size > 0 THEN <<EncSize>> ELSE <<>>)

\* create_inverse_model: the widths of the tensors appended to inverse_input_list.
InverseInputList ==
    (IF v_size > 0 THEN <<v_size * EncSize, v_size * EncSize>> ELSE <<>>)
    \o (IF o_size > 0 THEN <<EncSize, EncSize>> ELSE <<>>)
    \o (IF hp.use_recurrent THEN <<hp.m_size>> ELSE <<>>)

NextObsAttrs ==
    (IF v_size > 0 THEN {"next_visual_in"} ELSE {})
    \cup (IF o_size > 0 THEN {"next_vector_obs"} ELSE {})

CreateInverseModel ==
    /\ pc = "inverse"
    /\ IF ConcatRaises(InverseInputList)
       THEN /\ pc' = "error"
            /\ attrs' = attrs \cup NextObsAttrs
            /\ UNCHANGED widths
       ELSE IF ConcatRaises(EncodedStateList)
       THEN /\ pc' = "error"
            /\ attrs' = attrs \cup NextObsAttrs \cup {"inverse_loss"}
            /\ UNCHANGED widths
       ELSE /\ pc' = "forward"
            /\ attrs' = attrs \cup NextObsAttrs \cup {"inverse_loss"}
            /\ encoded_state_w' = ConcatWidth(EncodedStateList)
            /\ encoded_next_state_w' = ConcatWidth(EncodedStateList)
            /\ UNCHANGED pred_next_state_w
    /\ UNCHANGED <<config, head, layers, loss_terms, runtime>>

\* Width of the forward model's output layer, tf.layers.dense(hidden, 128).
PredNextStateWidth(enc_next_w) == PredSize

\* tf.squared_difference broadcasts: the last dimensions must agree or one be 1.
BroadcastRaises(w1, w2) == w1 # w2 /\ w1 # 1 /\ w2 # 1

CreateForwardModel ==
    /\ pc = "forward"
    /\ pred_next_state_w' = PredNextStateWidth(encoded_next_state_w)
    /\ IF BroadcastRaises(pred_next_state_w', encoded_next_state_w)
       THEN /\ pc' = "error"
            /\ UNCHANGED attrs
       ELSE /\ pc' = "optimizer"
            /\ attrs' = attrs \cup {"intrinsic_reward", "forward_loss"}
    /\ UNCHANGED <<config, head, layers, encoded_state_w, encoded_next_state_w,
                   loss_terms, runtime>>

\* The curiosity terms summed in whatever use_curiosity says.
LossTermsAlwaysCurious(use_curiosity) ==
    {"policy_loss", "value_loss", "entropy", "forward_loss", "inverse_loss"}

\* The terms create_ppo_optimizer sums into self.loss.
LossTerms(use_curiosity) ==
    {"policy_loss", "value_loss", "entropy"}
    \cup (IF use_curiosity THEN {"forward_loss", "inverse_loss"} ELSE {})

CreatePPOOptimizer ==
    /\ pc = "optimizer"
    /\ loss_terms' = LossTerms(hp.use_curiosity)
    /\ attrs' = attrs \cup OptimizerAttrs
    /\ pc' = "done"
    /\ UNCHANGED <<config, head, layers, widths, runtime>>

Build ==
    \/ CreateRewardEncoder
    \/ CreateActorCritic
    \/ CreateInverseModel
    \/ CreateForwardModel
    \/ CreatePPOOptimizer

\* ------------------------------------------------------------------ batches

\* What the network and the trainer hold for one timestep: the advantage, the
\* current and old action probabilities (one column per action head output, in
\* units of 1e-10), the value estimate, the old value estimate, the return, the
\* entropy, the first components of the predicted and of the actual next-state
\* encoding, and the inverse model's per-example error.
Samples(m) ==
    { [mask_input |-> m, advantage |-> R(2), probs |-> <<2, 2>>, old_probs |-> <<1, 1>>,
       value |-> R(1), old_value |-> R(0), returns |-> R(1), entropy |-> R(1),
       pred_next_state |-> <<1, 0>>, encoded_next_state |-> <<1, 0>>, inverse_err |-> R(0)],
      [mask_input |-> m, advantage |-> R(3), probs |-> <<1, 4>>, old_probs |-> <<0, 3>>,
       value |-> R(0), old_value |-> R(0), returns |-> R(2), entropy |-> R(2),
       pred_next_state |-> <<0, 0>>, encoded_next_state |-> <<2, 0>>, inverse_err |-> R(1)],
      [mask_input |-> m, advantage |-> R(2), probs |-> <<4, 1>>, old_probs |-> <<1, 1>>,
       value |-> R(2), old_value |-> R(1), returns |-> R(0), entropy |-> R(0),
       pred_next_state |-> <<1, 1>>, encoded_next_state |-> <<0, 0>>, inverse_err |-> R(2)],
      [mask_input |-> m, advantage |-> R(-1), probs |-> <<1, 4>>, old_probs |-> <<1, 1>>,
       value |-> R(1), old_value |-> R(1), returns |-> R(3), entropy |-> R(2),
       pred_next_state |-> <<0, 1>>, encoded_next_state |-> <<0, 0>>, inverse_err |-> R(3)] }

TimeSteps == Samples(0) \cup Samples(1)

Batches == UNION { [1 .. n -> TimeSteps] : n \in 1 .. MaxBatch }

\* ----------------------------------------------------------- the built graph

Map(s, F(_)) == [i \in 1 .. Len(s) |-> F(s[i])]

\* The entropy schedule decaying to epsilon's end value.
decay_beta_to_epsilon_end(h, step) == polynomial_decay(h.beta, step, h.max_step, EpsilonEnd)

\* The three schedules, all read from the one step counter.
learning_rate(h, step) == polynomial_decay(h.lr, step, h.max_step, LrEnd)

decay_epsilon(h, step) == polynomial_decay(h.epsilon, step, h.max_step, EpsilonEnd)

decay_beta(h, step) == polynomial_decay(h.beta, step, h.max_step, BetaEnd)

\* self.mask = tf.equal(self.mask_input, 1.0)
mask(b) == [i \in 1 .. Len(b) |-> b[i].mask_input = 1]

\* Columns of probs: one per action for continuous control, one for discrete.
ProbCols(hd, br) == IF hd = "cc" THEN br.vector_action_space_size ELSE 1

\* Entropy of the continuous head, a scalar of the policy, not of the timestep.
GaussianEntropy == Rat(3, 2)

\* The entropy tensor handed to the optimizer, one entry per timestep.
entropy(b, hd) ==
    IF hd = "cc" THEN [i \in 1 .. Len(b) |-> RMul(R(1), GaussianEntropy)]
    ELSE [i \in 1 .. Len(b) |-> b[i].entropy]

clipped_value_estimate(t, eps) ==
    RAdd(t.old_value, tf_clip_by_value(RSub(t.value, t.old_value), RNeg(eps), eps))

v_opt_a(t) == tf_squared_difference(t.returns, t.value)
v_opt_b(t, eps) == tf_squared_difference(t.returns, clipped_value_estimate(t, eps))

value_loss(b, eps) ==
    tf_reduce_mean(tf_boolean_mask([i \in 1 .. Len(b) |-> RMax(v_opt_a(b[i]), v_opt_b(b[i], eps))],
                                   mask(b)))

r_theta(t, c) == RDiv(R(t.probs[c]), RAdd(R(t.old_probs[c]), ProbGuard))
p_opt_a(t, c) == RMul(r_theta(t, c), t.advantage)
p_opt_b(t, c, eps) ==
    RMul(tf_clip_by_value(r_theta(t, c), RSub(R(1), eps), RAdd(R(1), eps)), t.advantage)

\* The policy loss averaged over every timestep, masked out or not.
policy_loss_unmasked(b, eps, cols) ==
    RNeg(tf_reduce_mean(Flatten(
        [i \in 1 .. Len(b) |->
            [c \in 1 .. cols |-> RMin(p_opt_a(b[i], c), p_opt_b(b[i], c, eps))]])))

policy_loss(b, eps, cols) ==
    RNeg(tf_reduce_mean(Flatten(tf_boolean_mask(
        [i \in 1 .. Len(b) |->
            [c \in 1 .. cols |-> RMin(p_opt_a(b[i], c), p_opt_b(b[i], c, eps))]],
        mask(b)))))

\* Per-example sum over the encoding of the squared differences.
SumSquares(t) ==
    RSum([j \in 1 .. Len(t.pred_next_state) |->
            tf_squared_difference(R(t.pred_next_state[j]), R(t.encoded_next_state[j]))])

\* The per-example error without the factor 0.5.
squared_difference_unhalved(t) == SumSquares(t)

\* create_forward_model's squared_difference, per example.
squared_difference(t) == RMul(HalfSquares, SumSquares(t))

intrinsic_reward(b) == [i \in 1 .. Len(b) |-> RMul(RewardScale, squared_difference(b[i]))]

forward_loss(b) == tf_reduce_mean([i \in 1 .. Len(b) |-> squared_difference(b[i])])

inverse_loss(b) == tf_reduce_mean([i \in 1 .. Len(b) |-> b[i].inverse_err])

\* The curiosity term of self.loss.
curiosity_term(fl, il) ==
    RMul(CuriosityWeight, RAdd(RMul(ForwardWeight, fl), RMul(InverseWeight, il)))

\* self.loss from its terms; the curiosity term when the graph was built with it.
loss(pl, vl, beta, masked_entropy, fl, il, terms) ==
    LET base == RSub(RAdd(pl, RMul(ValueWeight, vl)),
                     RMul(beta, tf_reduce_mean(masked_entropy)))
    IN  IF "forward_loss" \in terms THEN RAdd(base, curiosity_term(fl, il)) ELSE base

\* The scalar self.loss of the graph built for (h, hd, br, terms) on batch b.
TotalLoss(b, h, step, hd, br, terms) ==
    LET eps == decay_epsilon(h, step)
    IN  loss(policy_loss(b, eps, ProbCols(hd, br)), value_loss(b, eps), decay_beta(h, step),
             tf_boolean_mask(entropy(b, hd), mask(b)), forward_loss(b), inverse_loss(b), terms)

\* What one run of the graph on batch b fetches.
Fetch(b) ==
    LET eps == decay_epsilon(hp, global_step)
        cur == "forward_loss" \in attrs
        pl  == policy_loss(b, eps, ProbCols(head, brain))
        vl  == value_loss(b, eps)
        fl  == forward_loss(b)
        il  == inverse_loss(b)
    IN  [policy_loss |-> pl,
         value_loss |-> vl,
         loss |-> loss(pl, vl, decay_beta(hp, global_step),
                       tf_boolean_mask(entropy(b, head), mask(b)), fl, il, loss_terms),
         forward_loss |-> IF cur THEN fl ELSE None,
         inverse_loss |-> IF cur THEN il ELSE None,
         intrinsic_reward |-> IF cur THEN intrinsic_reward(b) ELSE None]

\* ----------------------------------------------------------------- operations

\* Every variable of the graph trainable, the reward tracker's included.
EveryVariableTrainable == {"weights", "last_reward"}

\* Variables optimizer.minimize updates: the trainable ones; last_reward is
\* created with trainable=False.
TrainableVariables == {"weights"}

\* tf.assign(ref, value): the new content of ref.
tf_assign(ref, value) == value

\* update_reward, fed r into new_reward.
UpdateReward(r) ==
    /\ pc = "done"
    /\ feed = <<>>
    /\ new_reward' = <<r>>
    /\ last_reward' = tf_assign(last_reward, r)
    /\ UNCHANGED <<config, pc, attrs, head, layers, widths, loss_terms, global_step,
                   feed, out>>

\* The step counter of LearningModel, incremented by the trainer.
IncrementStep ==
    /\ pc = "done"
    /\ feed = <<>>
    /\ global_step < MaxGlobalStep
    /\ global_step' = global_step + 1
    /\ UNCHANGED <<config, pc, attrs, head, layers, widths, loss_terms, last_reward,
                   new_reward, feed, out>>

\* What one optimizer step leaves in a variable: the trainable ones move.  The
\* network weights are not state of this model: what the network computes for
\* a timestep is part of the batch.
AdamStep(name, x) == IF name \in TrainableVariables THEN x + 1 ELSE x

\* One run of update_batch with the losses fetched.
RunUpdateBatch(b) ==
    /\ pc = "done"
    /\ feed = <<>>
    /\ feed' = b
    /\ out' = Fetch(b)
    /\ last_reward' = AdamStep("last_reward", last_reward)
    /\ UNCHANGED <<config, pc, attrs, head, layers, widths, loss_terms, global_step,
                   new_reward>>

\* The run returns what it fetched to the trainer.
ReturnResults ==
    /\ feed # <<>>
    /\ feed' = <<>>
    /\ out' = NoOut
    /\ UNCHANGED <<config, pc, attrs, head, layers, widths, loss_terms, global_step,
                   last_reward, new_reward>>

\* ------------------------------------------------------------ specifications

InitState ==
    /\ pc = "start"
    /\ attrs = {}
    /\ head = "none"
    /\ layers = 0
    /\ encoded_state_w = 0
    /\ encoded_next_state_w = 0
    /\ pred_next_state_w = 0
    /\ loss_terms = {}
    /\ global_step = 0
    /\ last_reward = 0
    /\ new_reward = <<>>
    /\ feed = <<>>
    /\ out = NoOut

\* The default brain, with or without curiosity and recurrence.
Init ==
    /\ brain = DefaultBrain
    /\ hp \in {[DefaultHp EXCEPT !.use_curiosity = c] : c \in BOOLEAN}
    /\ InitState

Next ==
    \/ Build
    \/ \E r \in Rewards : UpdateReward(r)
    \/ IncrementStep
    \/ \E b \in Batches : RunUpdateBatch(b)
    \/ ReturnResults

Spec == Init /\ [][Next]_vars

\* Every brain, with every combination of the constructor's switches.
InitBuild ==
    /\ brain \in Brains
    /\ hp \in {[DefaultHp EXCEPT !.use_curiosity = c, !.use_recurrent = u, !.num_layers = n] :
                 c \in BOOLEAN, u \in BOOLEAN, n \in {0, 2}}
    /\ InitState

SpecBuild == InitBuild /\ [][Build]_vars

\* Every configured initial value of the three schedules and every horizon.
InitSched ==
    /\ brain = DefaultBrain
    /\ hp \in {[DefaultHp EXCEPT !.lr = l, !.epsilon = e, !.beta = bt, !.max_step = m,
                                  !.use_curiosity = c] :
                 l \in LrVals, e \in EpsilonVals, bt \in BetaVals, m \in Horizons,
                 c \in BOOLEAN}
    /\ InitState

NextSched == Build \/ IncrementStep

SpecSched == InitSched /\ [][NextSched]_vars

\* Both heads, with and without curiosity, an initial epsilon above and below 0.1.
InitLoss ==
    /\ brain \in {DefaultBrain, [DefaultBrain EXCEPT !.vector_action_space_type = "continuous"]}
    /\ hp \in {[DefaultHp EXCEPT !.epsilon = e, !.use_curiosity = c] :
                 e \in {Rat(1, 5), Rat(1, 20)}, c \in BOOLEAN}
    /\ InitState

NextLoss ==
    \/ Build
    \/ IncrementStep
    \/ \E b \in Batches : RunUpdateBatch(b)
    \/ ReturnResults

SpecLoss == InitLoss /\ [][NextLoss]_vars

\* --------------------------------------------------------------------- claims

Built == pc = "done"
Running == feed # <<>>
RLt(x, y) == RLe(x, y) /\ x # y

\* The three schedules as <<initial value, end value, value at step s>>.
ScheduleAt(s) ==
    { <<hp.lr, LrEnd, learning_rate(hp, s)>>,
      <<hp.epsilon, EpsilonEnd, decay_epsilon(hp, s)>>,
      <<hp.beta, BetaEnd, decay_beta(hp, s)>> }

Prev(s) == IF s > 0 THEN s - 1 ELSE 0

\* C2 (as stated): whatever the configured initial value, each of the three
\* schedules is at every step at or above its floor and not above its value
\* at the step before.
C2_FloorAndMonotoneForEveryInitial ==
    Built =>
        /\ \A x \in ScheduleAt(global_step) : RLe(x[2], x[3])
        /\ RLe(learning_rate(hp, global_step), learning_rate(hp, Prev(global_step)))
        /\ RLe(decay_epsilon(hp, global_step), decay_epsilon(hp, Prev(global_step)))
        /\ RLe(decay_beta(hp, global_step), decay_beta(hp, Prev(global_step)))

\* C2 (amended): each schedule whose configured initial value is at or above
\* its floor is at every step at or above the floor and not above its value at
\* the step before.
C2_FloorAndMonotoneFromAbove ==
    Built =>
        /\ \A x \in ScheduleAt(global_step) : RLe(x[2], x[1]) => RLe(x[2], x[3])
        /\ RLe(LrEnd, hp.lr) =>
              RLe(learning_rate(hp, global_step), learning_rate(hp, Prev(global_step)))
        /\ RLe(EpsilonEnd, hp.epsilon) =>
              RLe(decay_epsilon(hp, global_step), decay_epsilon(hp, Prev(global_step)))
        /\ RLe(BetaEnd, hp.beta) =>
              RLe(decay_beta(hp, global_step), decay_beta(hp, Prev(global_step)))

\* A schedule configured above its floor has strictly decreased and, past the
\* horizon, sits on the floor.
C2_Witness ==
    /\ Built
    /\ RLt(EpsilonEnd, hp.epsilon)
    /\ RLt(BetaEnd, hp.beta)
    /\ global_step > hp.max_step
    /\ decay_epsilon(hp, global_step) = EpsilonEnd
    /\ RLt(decay_beta(hp, hp.max_step), decay_beta(hp, hp.max_step - 1))

\* C3: each of the three schedules, read from the one step counter, equals the
\* configured initial value at step 0, the floor at step = max_step and at
\* every later step, and in between the linear interpolation
\* (initial * (max_step - step) + floor * step) / max_step.
C3_ScheduleEndpointsAndInterpolation ==
    Built =>
        \A x \in ScheduleAt(global_step) :
            /\ global_step = 0 => x[3] = x[1]
            /\ global_step >= hp.max_step => x[3] = x[2]
            /\ global_step < hp.max_step =>
                  RMul(x[3], R(hp.max_step)) =
                      RAdd(RMul(x[1], R(hp.max_step - global_step)), RMul(x[2], R(global_step)))

\* Strictly between 0 and max_step, with an initial value that differs from the floor.
C3_Witness ==
    /\ Built
    /\ 0 < global_step
    /\ global_step < hp.max_step
    /\ hp.epsilon = Rat(1, 5)
    /\ hp.lr = R(1000000)
    /\ decay_epsilon(hp, global_step) # hp.epsilon
    /\ decay_epsilon(hp, global_step) # EpsilonEnd

NoObservations == o_size = 0 /\ v_size = 0

\* C4: with use_curiosity and a brain that has neither vector nor visual
\* observations, recurrent or not, the constructor never gets past
\* create_inverse_model: its step there ends in the error state, and no
\* forward model, loss or update operation is ever built.
C4_CuriosityWithoutObservationsFails ==
    (hp.use_curiosity /\ NoObservations) =>
        /\ pc \in {"start", "actor_critic", "inverse", "error"}
        /\ attrs \cap (OptimizerAttrs \cup {"forward_loss", "intrinsic_reward"}) = {}
        /\ pc = "inverse" => ENABLED (CreateInverseModel /\ pc' = "error")
        /\ pc = "inverse" => ~ ENABLED (CreateInverseModel /\ pc' # "error")

\* The recurrent case: the inverse model was built on the memory alone before
\* the empty encoded state was refused.
C4_Witness ==
    /\ hp.use_curiosity
    /\ NoObservations
    /\ hp.use_recurrent
    /\ pc = "error"
    /\ "inverse_loss" \in attrs

\* C5: for an action-space type that is neither "continuous" nor "discrete"
\* no actor-critic head, curiosity sub-network or update operation is built.
C5_UnrecognizedActionTypeBuildsNothing ==
    brain.vector_action_space_type \notin {"continuous", "discrete"} =>
        /\ head = "none"
        /\ attrs \cap (HeadAttrs \cup CuriosityAttrs \cup OptimizerAttrs) = {}
        /\ pc # "done"

\* C6: for every brain with at least one observation modality built with
\* use_curiosity, the forward model's output layer is as wide as the encoded
\* next state it is subtracted from.
C6_ForwardOutputMatchesEncodedNextState ==
    (hp.use_curiosity /\ ~ NoObservations /\ pred_next_state_w # 0) =>
        /\ pred_next_state_w = encoded_next_state_w
        /\ pc # "error"

Curious == "forward_loss" \in attrs

\* The batch with timestep i replaced by t.
Replace(b, i, t) == [b EXCEPT ![i] = t]

\* C1: a timestep whose mask flag is not 1 contributes to no term of the total
\* loss: replacing the data of a masked-out timestep of the batch by any other
\* data leaves the total loss the run fetched unchanged.
C1_MaskedOutTimestepsContributeNothing ==
    Running =>
        \A i \in 1 .. Len(feed) :
            feed[i].mask_input # 1 =>
                \A t \in Samples(feed[i].mask_input) :
                    TotalLoss(Replace(feed, i, t), hp, global_step, head, brain, loss_terms)
                        = out.loss

\* Sum over the encoding of the squared differences, in integers.
SquaredError(t) ==
    SumInts([j \in 1 .. Len(t.pred_next_state) |->
                (t.pred_next_state[j] - t.encoded_next_state[j])
                    * (t.pred_next_state[j] - t.encoded_next_state[j])])

BatchSquaredError(b) == SumInts([i \in 1 .. Len(b) |-> SquaredError(b[i])])

\* C7 (as stated): the intrinsic reward of every example is 0.01 times its sum
\* of squared differences, and the forward loss is the batch mean of half
\* that sum.
C7_RewardIsHundredthOfSquaredError ==
    (Running /\ Curious) =>
        /\ \A i \in 1 .. Len(feed) :
              out.intrinsic_reward[i] = Rat(SquaredError(feed[i]), 100)
        /\ out.forward_loss = Rat(BatchSquaredError(feed), 2 * Len(feed))

\* C7 (amended): the intrinsic reward of every example is 0.01 times half its
\* sum of squared differences (0.005 times the sum), and the forward loss is
\* the batch mean of half that sum.
C7_RewardIsHundredthOfHalfSquaredError ==
    (Running /\ Curious) =>
        /\ \A i \in 1 .. Len(feed) :
              out.intrinsic_reward[i] = Rat(SquaredError(feed[i]), 200)
        /\ out.forward_loss = Rat(BatchSquaredError(feed), 2 * Len(feed))

\* Two examples with different, non-zero prediction errors.
C7_Witness ==
    /\ Running
    /\ Curious
    /\ Len(feed) = 2
    /\ out.intrinsic_reward[1] = Rat(1, 50)
    /\ out.intrinsic_reward[2] = Rat(1, 100)
    /\ out.forward_loss = Rat(3, 2)

LastPushed == IF new_reward = <<>> THEN 0 ELSE new_reward[1]

\* C8: the reward tracker's scalar starts at 0 and always equals the value
\* most recently fed to update_reward (0 if none was); a step that changes it
\* is a run of update_reward, and a run of update_reward changes nothing but the
\* scalar and its input slot.
C8_RewardTracker ==
    /\ [](last_reward = LastPushed)
    /\ [][/\ last_reward' # last_reward => new_reward' = <<last_reward'>>
          /\ new_reward' # new_reward =>
                /\ last_reward' = new_reward'[1]
                /\ UNCHANGED <<config, pc, attrs, head, layers, widths, loss_terms,
                               global_step, feed, out>>]_vars

\* A reward pushed, then the step counter advanced and an optimizer run started.
C8_Witness ==
    /\ Running
    /\ global_step > 0
    /\ new_reward = <<7>>
    /\ last_reward = 7

MaskedEntropyMean == tf_reduce_mean(tf_boolean_mask(entropy(feed, head), mask(feed)))

\* C9: the curiosity term 10 * (0.2 * forward_loss + 0.8 * inverse_loss) is in
\* the total loss exactly when use_curiosity is set.  Without it the loss is
\* policy_loss + 0.5 * value_loss - decayed_beta * mean(masked entropy) and the
\* model has no next-observation input, forward loss, inverse loss or intrinsic
\* reward; with it both losses exist before the optimizer is created.
C9_CuriosityTermIffUseCuriosity ==
    /\ (pc = "optimizer" /\ hp.use_curiosity) => {"forward_loss", "inverse_loss"} \subseteq attrs
    /\ ~ hp.use_curiosity => attrs \cap CuriosityAttrs = {}
    /\ Built => ({"forward_loss", "inverse_loss"} \subseteq loss_terms <=> hp.use_curiosity)
    /\ Built => (loss_terms \cap {"forward_loss", "inverse_loss"} # {} <=> hp.use_curiosity)
    /\ Running =>
          LET base == RSub(RAdd(out.policy_loss, RMul(Rat(1, 2), out.value_loss)),
                           RMul(decay_beta(hp, global_step), MaskedEntropyMean))
          IN  out.loss =
                  IF hp.use_curiosity
                  THEN RAdd(base, RMul(R(10), RAdd(RMul(Rat(2, 10), out.forward_loss),
                                                   RMul(Rat(8, 10), out.inverse_loss))))
                  ELSE base

\* A run of a model built with curiosity whose curiosity term is not zero.
C9_Witness ==
    /\ Running
    /\ hp.use_curiosity
    /\ ~ IsNaN(out.loss)
    /\ out.forward_loss # R(0)
    /\ out.inverse_loss # R(0)

RatioIsOne(b, cols) ==
    \A i \in 1 .. Len(b) : \A c \in 1 .. cols : b[i].probs[c] = b[i].old_probs[c] + 1

Masked(b) == SelectSeq(b, LAMBDA t : t.mask_input = 1)

\* C10: when r_theta is 1 everywhere and no advantage is negative, the policy
\* loss is minus the mean of the advantages of the masked timesteps, whatever
\* the mask, the step counter and the configured initial epsilon.
C10_PolicyLossAtRatioOne ==
    (Running /\ RatioIsOne(feed, ProbCols(head, brain))
             /\ \A i \in 1 .. Len(feed) : RLe(R(0), feed[i].advantage)) =>
        out.policy_loss =
            RNeg(RDiv(RSum([i \in 1 .. Len(Masked(feed)) |-> Masked(feed)[i].advantage]),
                      R(Len(Masked(feed)))))

\* Ratio one everywhere, one timestep masked out and one kept, with different
\* advantages, past step 0 and with an initial epsilon below 0.1.
C10_Witness ==
    /\ Running
    /\ RatioIsOne(feed, ProbCols(head, brain))
    /\ Len(feed) = 2
    /\ feed[1].mask_input = 0
    /\ feed[1].advantage = R(2)
    /\ feed[2].mask_input = 1
    /\ feed[2].advantage = R(3)
    /\ out.policy_loss = R(-3)
    /\ global_step > 0
    /\ hp.epsilon = Rat(1, 20)

====
